---- MODULE Spec2Model ----
(***************************************************************************)
(* Model of src/bin/chatterbook.rs: the conversion of a ChatGPT export     *)
(* (a JSON array of conversations, each a graph of message nodes) into one *)
(* Markdown transcript per conversation.                                   *)
(*                                                                         *)
(* Strings that the program takes apart (titles, time stamps, file names,  *)
(* asset pointers, paths) are sequences of one-character strings.  Node    *)
(* identifiers and message texts are never taken apart and are plain       *)
(* strings.  Option<T> is a sequence of length 0 (None) or 1 (Some).       *)
(***************************************************************************)
EXTENDS Integers, Sequences, FiniteSets, TLC

\* ------------------------------------------------------------------ bounds
\* Number of conversations of the input array.
MaxConvs == 2
\* Number of iterations of the walk loop that are followed; the loop of the
\* program has no bound of its own.
MaxSteps == 4

\* ----------------------------------------------------------------- options
None == << >>
Some(x) == << x >>
IsSome(o) == Len(o) > 0
Unwrap(o) == o[1]

\* --------------------------------------------------------- string helpers
StartsWith(s, p) == Len(s) >= Len(p) /\ SubSeq(s, 1, Len(p)) = p
EndsWith(s, p) == Len(s) >= Len(p) /\ SubSeq(s, Len(s) - Len(p) + 1, Len(s)) = p
\* str::strip_prefix
StripPrefix(s, p) == IF StartsWith(s, p) THEN Some(SubSeq(s, Len(p) + 1, Len(s))) ELSE None

Digits == {"0", "1", "2", "3", "4", "5", "6", "7", "8", "9"}
Letters ==
  {"a", "b", "c", "d", "e", "f", "g", "h", "i", "j", "k", "l", "m",
   "n", "o", "p", "q", "r", "s", "t", "u", "v", "w", "x", "y", "z",
   "A", "B", "C", "D", "E", "F", "G", "H", "I", "J", "K", "L", "M",
   "N", "O", "P", "Q", "R", "S", "T", "U", "V", "W", "X", "Y", "Z"}
\* char::is_alphanumeric on the characters that occur
IsAlphanumeric(c) == c \in Letters \cup Digits

\* fn sanitize_filename
SanitizeChar(c) == IF IsAlphanumeric(c) \/ c = "_" THEN c ELSE "_"
sanitize_filename(name) == [i \in 1..Len(name) |-> SanitizeChar(name[i])]

\* ------------------------------------------------------- string constants
NewChat == <<"N", "e", "w", " ", "c", "h", "a", "t">>
Untitled == <<"u", "n", "t", "i", "t", "l", "e", "d">>
Unkown == <<"u", "n", "k", "o", "w", "n">>
ConversationPrefix == <<"c", "o", "n", "v", "e", "r", "s", "a", "t", "i", "o", "n", "_">>
MdExt == <<".", "m", "d">>
PngExt == <<".", "p", "n", "g">>
SedimentPrefix == <<"s", "e", "d", "i", "m", "e", "n", "t", ":", "/", "/">>
UserPrefix == <<"u", "s", "e", "r", "-">>

\* ------------------------------------------------------------- time stamp
DigitChar(d) == CASE d = 0 -> "0" [] d = 1 -> "1" [] d = 2 -> "2" [] d = 3 -> "3"
                  [] d = 4 -> "4" [] d = 5 -> "5" [] d = 6 -> "6" [] d = 7 -> "7"
                  [] d = 8 -> "8" [] d = 9 -> "9"
TwoDigits(n) == <<DigitChar(n \div 10), DigitChar(n % 10)>>
\* Display of chrono::DateTime<Utc> for a whole number of seconds of the
\* first day of the epoch: "1970-01-01 HH:MM:SS UTC".
FormatUtc(ts) ==
  <<"1", "9", "7", "0", "-", "0", "1", "-", "0", "1", " ">>
    \o TwoDigits(ts \div 3600) \o <<":">> \o TwoDigits((ts % 3600) \div 60)
    \o <<":">> \o TwoDigits(ts % 60) \o <<" ", "U", "T", "C">>

\* ------------------------------------------------------------------ paths
\* A path is a sequence of components; the first component of an absolute
\* path is the root "/".
RootDir == <<"/">>
CurDir == <<".">>
IsAbsolute(p) == Len(p) > 0 /\ p[1] = RootDir
\* Path::join: an absolute argument replaces the receiver
PathJoin(p, q) == IF IsAbsolute(q) THEN q ELSE p \o q
\* Path::display: the components separated by "/"
RECURSIVE PathDisplay(_)
PathDisplay(p) ==
  IF Len(p) = 0 THEN << >>
  ELSE IF Len(p) = 1 THEN p[1]
  ELSE IF p[1] = RootDir THEN RootDir \o PathDisplay(Tail(p))
  ELSE p[1] \o <<"/">> \o PathDisplay(Tail(p))
\* Splitting a string at "/" into components (the reading of a string as a
\* path by Path::join).
RECURSIVE SplitSlash(_, _)
SplitSlash(s, cur) ==
  IF Len(s) = 0 THEN (IF Len(cur) = 0 THEN << >> ELSE <<cur>>)
  ELSE IF Head(s) = "/" THEN (IF Len(cur) = 0 THEN << >> ELSE <<cur>>) \o SplitSlash(Tail(s), << >>)
  ELSE SplitSlash(Tail(s), Append(cur, Head(s)))
PathFromString(s) ==
  IF Len(s) > 0 /\ s[1] = "/" THEN <<RootDir>> \o SplitSlash(s, << >>) ELSE SplitSlash(s, << >>)
\* The directory entry a path names: "." components change nothing.
Normalize(p) == SelectSeq(p, LAMBDA c : c # CurDir)
PathParent(p) == SubSeq(p, 1, Len(p) - 1)
\* Path::file_name
PathFileName(p) == IF Len(p) = 0 \/ p[Len(p)] = RootDir THEN None ELSE Some(p[Len(p)])
\* Position of the last "." of a file name, 0 if there is none
RECURSIVE LastDot(_, _)
LastDot(n, i) == IF i = 0 THEN 0 ELSE IF n[i] = "." THEN i ELSE LastDot(n, i - 1)
\* Path::file_stem: the file name without its last extension
PathFileStem(p) ==
  IF ~IsSome(PathFileName(p)) THEN None
  ELSE LET n == Unwrap(PathFileName(p))
           d == LastDot(n, Len(n))
       IN  IF d <= 1 THEN Some(n) ELSE Some(SubSeq(n, 1, d - 1))

\* ----------------------------------------------------- the upload folders
\* The folder of the input file, as fs::read_dir lists it: entries in the
\* order of the listing, each with its files in the order of their listing.
InFolder == << <<"e", "x", "p">> >>
UploadEntries ==
  << [name |-> <<"o", "l", "d">>, is_dir |-> TRUE, readable |-> TRUE,
      files |-> << <<"z", "z", ".", "p", "n", "g">> >>],
     [name |-> <<"c", ".", "j", "s", "o", "n">>, is_dir |-> FALSE, readable |-> TRUE,
      files |-> << >>],
     [name |-> UserPrefix \o <<"1">>, is_dir |-> TRUE, readable |-> TRUE,
      files |-> << <<"f", "1", ".", "t", "x", "t">>,
                   <<"f", "1", "-", "a", ".", "p", "n", "g">> >>] >>

\* Inner loop of find_png: the first file of a folder whose name starts with
\* file_id and ends with ".png".
RECURSIVE FirstPngIn(_, _, _)
FirstPngIn(files, file_id, i) ==
  IF i > Len(files) THEN None
  ELSE IF StartsWith(files[i], file_id) /\ EndsWith(files[i], PngExt) THEN Some(files[i])
  ELSE FirstPngIn(files, file_id, i + 1)

\* fn find_png: scan of the "user-" folders of base_folder
RECURSIVE FindPngFrom(_, _, _, _)
FindPngFrom(entries, file_id, base_folder, i) ==
  IF i > Len(entries) THEN None
  ELSE LET e == entries[i]
       IN  IF e.is_dir /\ StartsWith(e.name, UserPrefix)
           THEN IF ~e.readable THEN None
                ELSE LET f == FirstPngIn(e.files, file_id, 1)
                     IN  IF IsSome(f) THEN Some(base_folder \o <<e.name, Unwrap(f)>>)
                         ELSE FindPngFrom(entries, file_id, base_folder, i + 1)
           ELSE FindPngFrom(entries, file_id, base_folder, i + 1)
find_png(file_id, base_folder) == FindPngFrom(UploadEntries, file_id, base_folder, 1)

\* The path find_png_for_asset copies to.
NewPngPath(out_folder, figure_base, asset_stem) ==
  PathJoin(out_folder, PathFromString(PathDisplay(figure_base) \o <<"_">> \o asset_stem \o PngExt))

\* fs::copy to a path succeeds when the directory of the path exists and the
\* device does not fail (io_ok).
CopySucceeds(target, existing_dirs, io_ok) ==
  io_ok /\ PathParent(Normalize(target)) \in existing_dirs

\* fn find_png_for_asset.  The result: ret, the Option<String> returned;
\* found, the source file find_png matched; target, the path of the copy when
\* a copy was made.
find_png_for_asset(asset_pointer, user_folder, out_folder, figure_base, existing_dirs, io_ok) ==
  LET file_id == StripPrefix(asset_pointer, SedimentPrefix)
      nothing == [ret |-> None, found |-> None, target |-> None]
  IN  IF ~IsSome(file_id) THEN nothing
      ELSE LET png_src == find_png(Unwrap(file_id), user_folder)
           IN  IF ~IsSome(png_src) THEN nothing
               ELSE LET asset_stem == PathFileStem(Unwrap(png_src))
                    IN  IF ~IsSome(asset_stem) THEN [nothing EXCEPT !.found = png_src]
                        ELSE LET new_png_path == NewPngPath(out_folder, figure_base, Unwrap(asset_stem))
                             IN  IF ~CopySucceeds(new_png_path, existing_dirs, io_ok)
                                 THEN [nothing EXCEPT !.found = png_src]
                                 ELSE [ret |-> PathFileName(new_png_path),
                                       found |-> png_src,
                                       target |-> Some(new_png_path)]

\* -------------------------------------------------------- content renderer
\* Role label of a block
RoleLabel(role) ==
  IF role = "user" THEN "User" ELSE IF role = "assistant" THEN "Assistant" ELSE role

\* Mutant: a part that did not resolve is rendered as a link to the pointer
RenderImagePartAsLink(asset_pointer, res) ==
  IF IsSome(res.ret) THEN [kind |-> "image", name |-> Unwrap(res.ret)]
  ELSE [kind |-> "image", name |-> asset_pointer]
\* One part of a MultimodalText content, given what find_png_for_asset gave
RenderImagePart(asset_pointer, res) ==
  IF IsSome(res.ret) THEN [kind |-> "image", name |-> Unwrap(res.ret)]
  ELSE [kind |-> "missing", pointer |-> asset_pointer]

\* The Part::Image arm of the Text content is todo!()
ContentPanics(content) ==
  content.content_type = "text" /\ \E i \in 1..Len(content.parts) : content.parts[i].kind = "Image"

RECURSIVE RecapReferences(_, _)
RecapReferences(refs, i) ==
  IF i > Len(refs) THEN << >>
  ELSE (IF Len(refs[i].safe_urls) > 0
        THEN << [kind |-> "reference", url |-> refs[i].safe_urls[1]] >> ELSE << >>)
       \o RecapReferences(refs, i + 1)

\* The match over Content: the pieces of the rendered content, in order.
\* results[i] is the result of find_png_for_asset for part i of a
\* MultimodalText content.
RenderContent(content, results) ==
  CASE content.content_type = "text" ->
         [i \in 1..Len(content.parts) |-> [kind |-> "text", s |-> content.parts[i].s]]
    [] content.content_type = "multimodal_text" ->
         [i \in 1..Len(content.parts) |-> RenderImagePart(content.parts[i].asset_pointer, results[i])]
    [] content.content_type = "thoughts" ->
         [i \in 1..Len(content.thoughts) |->
            [kind |-> "thought", summary |-> content.thoughts[i].summary,
             content |-> content.thoughts[i].content]]
    [] content.content_type = "code" ->
         << [kind |-> "fence",
             lang |-> IF IsSome(content.language) THEN Unwrap(content.language) ELSE "text",
             text |-> content.text] >>
    [] content.content_type = "reasoning_recap" ->
         << [kind |-> "text", s |-> content.content] >>
           \o (IF IsSome(content.content_references)
               THEN RecapReferences(Unwrap(content.content_references), 1) ELSE << >>)

\* --------------------------------------------------------------- messages
TextPart(t) == [kind |-> "Text", s |-> t]
ImagePart == [kind |-> "Image"]
TextContent(parts) == [content_type |-> "text", parts |-> parts]
MultimodalContent(pointers) ==
  [content_type |-> "multimodal_text",
   parts |-> [i \in 1..Len(pointers) |-> [asset_pointer |-> pointers[i]]]]
CodeContent(language, text) == [content_type |-> "code", language |-> language, text |-> text]
ThoughtsContent(thoughts) == [content_type |-> "thoughts", thoughts |-> thoughts]
RecapContent(content, refs) ==
  [content_type |-> "reasoning_recap", content |-> content, content_references |-> refs]
Message(role, content) == [role |-> role, content |-> content]

\* Asset pointers: one that names the file f1-a.png of the folder user-1, one
\* that names no file, one without the "sediment://" prefix.
PointerFound == SedimentPrefix \o <<"f", "1">>
PointerNoFile == SedimentPrefix \o <<"q", "9">>
PointerNoPrefix == <<"f", "1">>

\* ------------------------------------------------------------ node tables
\* A value of the mapping object.  parses is whether serde reads the value
\* as a MessageEntry; the other fields are the MessageEntry it is read as.
Node(i, p, c, m) == [id |-> i, parent |-> p, children |-> c, message |-> m, parses |-> TRUE]
Malformed(i) == [id |-> i, parent |-> None, children |-> << >>, message |-> None, parses |-> FALSE]
User(t) == Some(Message("user", TextContent(<<TextPart(t)>>)))
Asst(t) == Some(Message("assistant", TextContent(<<TextPart(t)>>)))

\* Scenario A of the specification: a chain
TChain == {Node("r", None, <<"a">>, None), Node("a", Some("r"), <<"b">>, User("Hi")),
           Node("b", Some("a"), << >>, Asst("Hello back"))}
\* an edited conversation: two branches at the root and at the first message
TBranch == {Node("r", None, <<"a", "b">>, None), Node("a", Some("r"), <<"c", "d">>, User("a")),
            Node("b", Some("r"), << >>, User("b")), Node("c", Some("a"), << >>, Asst("c")),
            Node("d", Some("a"), << >>, Asst("d"))}
\* a node that is its own child
TSelfLoop == {Node("r", None, <<"a">>, None), Node("a", Some("r"), <<"a">>, User("a"))}
\* two nodes that are each other's child
TCycle == {Node("r", None, <<"a">>, None), Node("a", Some("r"), <<"b">>, User("a")),
           Node("b", Some("a"), <<"a">>, Asst("b"))}
\* the parentless node is the child of its first child and carries a message
TRootChild == {Node("r", None, <<"a", "b">>, Some(Message("system", TextContent(<<TextPart("r")>>)))),
               Node("a", Some("r"), <<"r">>, User("a")), Node("b", Some("r"), << >>, Asst("b"))}
\* no parentless node
TNoRoot == {Node("a", Some("r"), <<"b">>, User("a")), Node("b", Some("a"), << >>, Asst("b"))}
\* the parentless node has no children
TRootNoChildren == {Node("r", None, << >>, None), Node("a", Some("r"), << >>, User("a"))}
\* two parentless nodes
TTwoRoots == {Node("r", None, <<"a">>, None), Node("s", None, <<"b">>, None),
              Node("a", Some("r"), << >>, User("a")), Node("b", Some("s"), << >>, User("b"))}
\* a child that is not in the mapping
TDangling == {Node("r", None, <<"a">>, None), Node("a", Some("r"), <<"x">>, User("a"))}
\* a child that does not parse
TMalformedChild == {Node("r", None, <<"a">>, None), Node("a", Some("r"), <<"b">>, User("a")),
                    Malformed("b"), Node("c", Some("b"), << >>, Asst("c"))}
\* the root does not parse
TMalformedRoot == {Malformed("r"), Node("a", Some("r"), << >>, User("a"))}
\* a node without a message on the path
TScaffold == {Node("r", None, <<"a">>, None), Node("a", Some("r"), <<"b">>, None),
              Node("b", Some("a"), << >>, Asst("b"))}
\* no message on the path
TNoMessage == {Node("r", None, <<"a">>, None), Node("a", Some("r"), << >>, None)}
\* the first child of the root is the empty identifier
TEmptyId == {Node("r", None, <<"">>, None), Node("", Some("r"), << >>, User("e"))}
\* images: one that resolves, then two that do not, then a text
TImages == {Node("r", None, <<"a">>, None),
            Node("a", Some("r"), <<"b">>, Some(Message("assistant", MultimodalContent(<<PointerFound>>)))),
            Node("b", Some("a"), <<"c">>,
                 Some(Message("user", MultimodalContent(<<PointerNoFile, PointerNoPrefix>>)))),
            Node("c", Some("b"), << >>, Asst("c"))}
\* one message, one image that does not resolve
TMissingImage == {Node("r", None, <<"a">>, None),
                  Node("a", Some("r"), << >>, Some(Message("user", MultimodalContent(<<PointerNoFile>>))))}
\* an inline image part in a Text content
TInlineImage == {Node("r", None, <<"a">>, None),
                 Node("a", Some("r"), << >>, Some(Message("user", TextContent(<<TextPart("a"), ImagePart>>))))}
\* the other content variants and another role
TVariants == {Node("r", None, <<"a">>, None),
              Node("a", Some("r"), <<"b">>, Some(Message("tool", CodeContent(Some("python"), "print(1)")))),
              Node("b", Some("a"), <<"c">>,
                   Some(Message("assistant", ThoughtsContent(<<[summary |-> "s", content |-> "c"]>>)))),
              Node("c", Some("b"), << >>,
                   Some(Message("assistant",
                                RecapContent("t", Some(<<[safe_urls |-> <<"u1", "u2">>],
                                                         [safe_urls |-> << >>]>>)))))}

\* The mapping field of a conversation: Some(set of values) when it is a JSON
\* object, None when it is any other JSON value.
Mappings ==
  {Some(t) : t \in {TChain, TBranch, TSelfLoop, TCycle, TRootChild, TNoRoot, TRootNoChildren,
                    TTwoRoots, TDangling, TMalformedChild, TMalformedRoot, TScaffold,
                    TNoMessage, TEmptyId, TImages, TMissingImage, TInlineImage, TVariants, {}}}
    \cup {None}

\* Titles: absent, the placeholder, two that sanitize to the same name, and
\* one that already is a safe name.
TitleAB == <<"a", " ", "b">>
TitleA_B == <<"a", "_", "b">>
Titles == {None, Some(NewChat), Some(TitleAB), Some(TitleA_B), Some(Untitled)}
\* Creation times, in seconds since the epoch
Times == {None, Some(5), Some(65)}

Conversation(t, ct, m) == [title |-> t, create_time |-> ct, mapping |-> m]
\* The conversations the input array is made of: every mapping under a plain
\* title and under the placeholder title, and every title and time over the
\* chain and over the conversation with images.
Conversations ==
  {Conversation(t, None, m) : t \in {Some(TitleAB), Some(NewChat)}, m \in Mappings}
    \cup {Conversation(t, ct, Some(m)) : t \in Titles, ct \in Times, m \in {TChain}}
    \cup {Conversation(t, None, Some(TImages)) : t \in Titles}

\* The output directory of the command line: the default ".", a relative
\* path, an absolute path.
OutRelative == << <<"o", "u", "t">> >>
OutAbsolute == << RootDir, <<"o", "u", "t">> >>
OutPaths == {<<CurDir>>, OutRelative, OutAbsolute}

\* ------------------------------------------------------------------ state
VARIABLES
  outpath,       \* args.outpath
  dirs,          \* the directories that exist (normalized paths)
  files,         \* the files written below the output directory
  stdout,        \* the lines main prints about the outcome of a conversation
  pc,            \* position of main: "next", "walk", "write", "done", "panic", "error"
  convIdx,       \* number of conversations of the array taken so far
  conv,          \* the conversation of the current iteration of the for loop
  title, filename, figure_base, md, sections,
  graph_built,   \* whether messages_map of the current conversation was built
  messages_map, root_id, id,
  visited,       \* history: the identifiers the walk loop looked up and found
  rendered,      \* history: the identifiers whose message was appended to md
  picks,         \* history: the children lists a child was taken from, and the child
  asset_log,     \* history: the calls of find_png_for_asset of the conversation
  run,           \* 1 in the run of main, 2 in a second run on the same input
  conversations, \* the array read from the input file, as far as a second run needs it
  first_files    \* the files the first run left, in the second run

vars == <<outpath, dirs, files, stdout, pc, convIdx, conv, title, filename, figure_base,
          md, sections, graph_built, messages_map, root_id, id, visited, rendered, picks,
          asset_log, run, conversations, first_files>>

\* what one run of main changes nothing of
env == <<outpath, dirs, run, first_files>>

NoConversation == Conversation(None, None, None)
EmptyMap == [k \in {} |-> None]
\* conversations while no second run is to follow: the array is not kept
NotKept == << [kept |-> FALSE] >>

\* The locals of the body of the for loop, before the first iteration
InitLocals ==
  /\ conv = NoConversation
  /\ title = << >> /\ filename = << >> /\ figure_base = << >> /\ md = << >> /\ sections = 0
  /\ graph_built = FALSE
  /\ messages_map = EmptyMap /\ root_id = "" /\ id = ""
  /\ visited = << >> /\ rendered = << >> /\ picks = << >> /\ asset_log = << >>

\* fs::create_dir_all(&args.outpath) has made the output directory.  A
\* relative output directory may already hold a folder of its own name.
InitRun ==
  /\ outpath \in OutPaths
  /\ \E nested \in SUBSET {Normalize(PathJoin(outpath, outpath))} :
       dirs = {Normalize(outpath)} \cup nested
  /\ files = {}
  /\ stdout = << >>
  /\ pc = "next"
  /\ convIdx = 0
  /\ InitLocals
  /\ run = 1
  /\ first_files = {}

Init == InitRun /\ conversations = NotKept

\* ------------------------------------------------------- steps of main
\* Mutant: the title is compared with the sanitized placeholder
IsPlaceholderTitleSanitized(t) == t = sanitize_filename(NewChat)
\* title == "New chat"
IsPlaceholderTitle(t) == t = NewChat

\* Mutant: a value that does not parse is kept as an entry without message
BuildMessagesMapAll(mapping) ==
  [k \in {v.id : v \in mapping} |-> CHOOSE v \in mapping : v.id = k]
\* messages_map: the values that parse, keyed by their own id
BuildMessagesMap(mapping) ==
  LET entries == {v \in mapping : v.parses}
  IN  [k \in {v.id : v \in entries} |-> CHOOSE v \in entries : v.id = k]

\* The entries `find(|entry| entry.parent.is_none())` may return: the
\* iteration order of a HashMap is not determined by its content.
ParentlessEntries(map) == {k \in DOMAIN map : ~IsSome(map[k].parent)}

\* Mutant: the root resolution takes the last child
RootChildLast(children) == children[Len(children)]
\* entry.children.first() of the root resolution
RootChild(children) == Head(children)
\* Mutant: the walk loop takes the first child
NextChildFirst(children) == Head(children)
\* entry.children.last() of the walk loop
NextChild(children) == children[Len(children)]

\* A file of the output: fs::write and fs::copy replace what the path held.
\* conv is the iteration that wrote the file.
WriteFile(fs, path, kind, data, owner) ==
  {f \in fs : f.path # Normalize(path)}
    \cup {[path |-> Normalize(path), kind |-> kind, data |-> data, conv |-> owner]}

\* The conversation the for loop takes next: any conversation in the one run
\* of main, the conversation of the array in a second run.
TakeNext(c) ==
  IF run = 1
  THEN conversations' = IF conversations = NotKept THEN NotKept ELSE Append(conversations, c)
  ELSE /\ convIdx < Len(conversations)
       /\ c = conversations[convIdx + 1]
       /\ UNCHANGED conversations

\* `continue` of the title check
Skip ==
  /\ pc' = "next"
  /\ title' = NewChat
  /\ UNCHANGED <<filename, figure_base, md, sections, messages_map, root_id, id, files, stdout>>
  /\ graph_built' = FALSE
  /\ visited' = << >> /\ rendered' = << >> /\ picks' = << >> /\ asset_log' = << >>

\* root_id and the test `!root_id.is_empty()`, given messages_map
ResolveRoot(map, n) ==
  IF ParentlessEntries(map) = {}
  THEN /\ root_id' = "" /\ id' = ""
       /\ picks' = << >>
       /\ stdout' = Append(stdout, [conv |-> n, line |-> "No root message found"])
       /\ pc' = "write"
  ELSE \E k \in ParentlessEntries(map) :
         IF Len(map[k].children) = 0
         THEN \* children.first().unwrap() on None
              /\ pc' = "panic"
              /\ root_id' = "" /\ id' = ""
              /\ picks' = << >>
              /\ UNCHANGED stdout
         ELSE LET r == RootChild(map[k].children)
              IN  /\ root_id' = r
                  /\ id' = r
                  /\ picks' = << [at |-> "root", from |-> k, children |-> map[k].children, child |-> r] >>
                  /\ IF r = ""
                     THEN /\ stdout' = Append(stdout, [conv |-> n, line |-> "No root message found"])
                          /\ pc' = "write"
                     ELSE /\ UNCHANGED stdout
                          /\ pc' = IF r \in DOMAIN map THEN "walk" ELSE "write"

\* Head of the body of the for loop up to the walk loop: the title check, the
\* names, the header of the document, messages_map and root_id.
Begin(c) ==
  /\ pc = "next"
  /\ convIdx < MaxConvs
  /\ TakeNext(c)
  /\ convIdx' = convIdx + 1
  /\ conv' = c
  /\ UNCHANGED env
  /\ LET t == IF IsSome(c.title) THEN Unwrap(c.title) ELSE Untitled
         safe_title == sanitize_filename(t)
         time == IF IsSome(c.create_time) THEN FormatUtc(Unwrap(c.create_time)) ELSE Unkown
         save_time == sanitize_filename(time)
         base == ConversationPrefix \o save_time \o <<"_">> \o safe_title
         header == << [kind |-> "heading", title |-> t] >>
                     \o (IF IsSome(c.create_time) THEN << [kind |-> "created", time |-> time] >> ELSE << >>)
     IN  IF IsPlaceholderTitle(t) THEN Skip
         ELSE
           /\ title' = t
           /\ filename' = PathJoin(outpath, <<base \o MdExt>>)
           /\ figure_base' = PathJoin(outpath, <<base>>)
           /\ md' = header
           /\ sections' = 0
           /\ visited' = << >> /\ rendered' = << >> /\ asset_log' = << >>
           /\ UNCHANGED files
           /\ IF ~IsSome(c.mapping)
              THEN /\ graph_built' = FALSE
                   /\ messages_map' = EmptyMap /\ root_id' = "" /\ id' = ""
                   /\ picks' = << >>
                   /\ pc' = "write"
                   /\ UNCHANGED stdout
              ELSE /\ graph_built' = TRUE
                   /\ messages_map' = BuildMessagesMap(Unwrap(c.mapping))
                   /\ ResolveRoot(BuildMessagesMap(Unwrap(c.mapping)), convIdx + 1)

\* The copies of the parts of one message, in the order of the parts
RECURSIVE ApplyCopies(_, _, _, _)
ApplyCopies(fs, results, i, owner) ==
  IF i > Len(results) THEN fs
  ELSE ApplyCopies(IF IsSome(results[i].target)
                   THEN WriteFile(fs, Unwrap(results[i].target), "png", Unwrap(results[i].found), owner)
                   ELSE fs,
                   results, i + 1, owner)

\* The block `**role:**\n\ncontent\n\n---\n\n` of one message
Block(msg, content) ==
  [kind |-> "block", role |-> RoleLabel(msg.role), content |-> content]

\* Whether the device lets a write or a copy succeed.  A second run is
\* compared with the first on a device that does not fail.
IoOutcomes == IF conversations = NotKept THEN BOOLEAN ELSE {TRUE}

\* One iteration of `while let Some(entry) = messages_map.get(id)`: the
\* message of the entry, if any, is rendered and appended; then the walk
\* moves to the last child, or ends.  The test of the next iteration is part
\* of the step.
WalkStep ==
  /\ pc = "walk"
  /\ Len(visited) < MaxSteps
  /\ LET entry == messages_map[id]
         has_msg == IsSome(entry.message)
         msg == Unwrap(entry.message)
         pointers == IF has_msg /\ msg.content.content_type = "multimodal_text"
                     THEN [i \in 1..Len(msg.content.parts) |-> msg.content.parts[i].asset_pointer]
                     ELSE << >>
     IN  /\ visited' = Append(visited, id)
         /\ IF has_msg /\ ContentPanics(msg.content)
            THEN \* todo!() of the Part::Image arm
                 /\ pc' = "panic"
                 /\ UNCHANGED <<md, sections, files, asset_log, id, picks, rendered>>
            ELSE
              /\ \E io_oks \in [1..Len(pointers) -> IoOutcomes] :
                   LET results == [i \in 1..Len(pointers) |->
                                     find_png_for_asset(pointers[i], InFolder, outpath, figure_base,
                                                        dirs, io_oks[i])]
                   IN  IF has_msg
                       THEN /\ sections' = sections + 1
                            /\ md' = Append(md, Block(msg, RenderContent(msg.content, results)))
                            /\ rendered' = Append(rendered, id)
                            /\ files' = ApplyCopies(files, results, 1, convIdx)
                            /\ asset_log' = asset_log \o
                                 [i \in 1..Len(pointers) |->
                                    [node |-> id, part |-> i, pointer |-> pointers[i],
                                     io_ok |-> io_oks[i], res |-> results[i]]]
                       ELSE UNCHANGED <<md, sections, files, asset_log, rendered>>
              /\ IF Len(entry.children) > 0
                 THEN LET child == NextChild(entry.children)
                      IN  /\ id' = child
                          /\ picks' = Append(picks, [at |-> "walk", from |-> id,
                                                     children |-> entry.children, child |-> child])
                          /\ pc' = IF child \in DOMAIN messages_map THEN "walk" ELSE "write"
                 ELSE /\ pc' = "write"
                      /\ UNCHANGED <<id, picks>>
  /\ UNCHANGED <<stdout, convIdx, conv, title, filename, figure_base,
                 graph_built, messages_map, root_id, conversations>>
  /\ UNCHANGED env

\* Mutant: the transcript is written whatever the count
ShouldWriteAlways(n) == n >= 0
\* `if sections > 0`
ShouldWrite(n) == n > 0

\* End of the body of the for loop: the transcript is written when a message
\* was rendered.  A failing fs::write ends main with the error.
Finish ==
  /\ pc = "write"
  /\ IF ShouldWrite(sections)
     THEN \E io_ok \in IoOutcomes :
            IF io_ok /\ PathParent(Normalize(filename)) \in dirs
            THEN /\ files' = WriteFile(files, filename, "md", md, convIdx)
                 /\ stdout' = Append(stdout, [conv |-> convIdx, line |-> "Wrote", file |-> filename])
                 /\ pc' = "next"
            ELSE /\ pc' = "error"
                 /\ UNCHANGED <<files, stdout>>
     ELSE /\ stdout' = Append(stdout, [conv |-> convIdx, line |-> "ERROR: Failed to detect content",
                                       file |-> filename])
          /\ pc' = "next"
          /\ UNCHANGED files
  /\ UNCHANGED <<convIdx, conv, title, filename, figure_base, md, sections,
                 graph_built, messages_map, root_id, id, visited, rendered, picks, asset_log,
                 conversations>>
  /\ UNCHANGED env

\* The array has no further conversation: main returns Ok(())
EndBatch ==
  /\ pc = "next"
  /\ run = 2 => convIdx = Len(conversations)
  /\ pc' = "done"
  /\ UNCHANGED <<files, stdout, convIdx, conv, title, filename, figure_base,
                 md, sections, graph_built, messages_map, root_id, id, visited, rendered, picks,
                 asset_log, conversations>>
  /\ UNCHANGED env

Next ==
  \/ \E c \in Conversations : Begin(c)
  \/ WalkStep
  \/ Finish
  \/ EndBatch

Spec == Init /\ [][Next]_vars

\* -------------------------------------------------------------- two runs
\* main is run again on the same input file, with the output directory
\* emptied; what the first run wrote is kept aside.
InitTwoRuns == InitRun /\ conversations = << >>

Rerun ==
  /\ pc = "done"
  /\ run = 1
  /\ conversations # NotKept
  /\ run' = 2
  /\ first_files' = files
  /\ files' = {}
  /\ stdout' = << >>
  /\ pc' = "next"
  /\ convIdx' = 0
  /\ conv' = NoConversation
  /\ title' = << >> /\ filename' = << >> /\ figure_base' = << >> /\ md' = << >> /\ sections' = 0
  /\ graph_built' = FALSE
  /\ messages_map' = EmptyMap /\ root_id' = "" /\ id' = ""
  /\ visited' = << >> /\ rendered' = << >> /\ picks' = << >> /\ asset_log' = << >>
  /\ UNCHANGED <<outpath, dirs, conversations>>

NextTwoRuns == Next \/ Rerun

SpecTwoRuns == InitTwoRuns /\ [][NextTwoRuns]_vars

\* ================================================================== claims
Range(q) == {q[i] : i \in 1..Len(q)}
Last(q) == q[Len(q)]
\* a conversation is the current one and was not skipped for its title
Current == convIdx > 0 /\ conv.title # Some(NewChat)
\* the body of the for loop ran to its end for the current conversation
AtEnd == Current /\ pc \in {"next", "done"}
\* the files the current conversation wrote
OwnFiles == {f \in files : f.conv = convIdx}
\* the lines the current conversation printed
OwnLines == {stdout[i].line : i \in {j \in 1..Len(stdout) : stdout[j].conv = convIdx}}
\* the block of md of the b-th rendered message
BlockOf(b) == md[Len(md) - Len(rendered) + b]
\* the node table has exactly one parentless node, and it has a child
OneRootWithChild ==
  /\ Current /\ graph_built
  /\ Cardinality(ParentlessEntries(messages_map)) = 1
  /\ \A k \in ParentlessEntries(messages_map) : Len(messages_map[k].children) > 0
TheRoot == CHOOSE k \in ParentlessEntries(messages_map) : TRUE

\* C1: for every node table, cyclic ones included, the walk visits each node
\* identifier at most once: no identifier is looked up and rendered twice.
C1_NoRevisit ==
  \A i, j \in 1..Len(visited) : i # j => visited[i] # visited[j]

\* C2: when the node table has no parentless node, or its parentless node has
\* no children, the conversation is skipped: main is not aborted and no file
\* is written for the conversation.
C2_RootFailureSkips ==
  (/\ Current /\ graph_built
   /\ \A k \in ParentlessEntries(messages_map) : Len(messages_map[k].children) = 0)
    => /\ pc \notin {"panic", "error"}
       /\ OwnFiles = {}

\* C3 as claimed: with exactly one parentless node N that has a child, the
\* entry point of the walk is the first child of N and N is never rendered.
C3_RootNeverRendered ==
  OneRootWithChild =>
    /\ root_id = Head(messages_map[TheRoot].children)
    /\ TheRoot \notin Range(rendered)

\* C3 as amended: with exactly one parentless node N that has a child, the
\* entry point of the walk is the first child of N, and N is rendered only
\* when the children links lead back to it: N is its own first child or the
\* last child of a node the walk visited.
C3_EntryIsFirstChild ==
  OneRootWithChild =>
    /\ root_id = Head(messages_map[TheRoot].children)
    /\ TheRoot \in Range(rendered) =>
         \/ Head(messages_map[TheRoot].children) = TheRoot
         \/ \E k \in Range(visited) :
              /\ Len(messages_map[k].children) > 0
              /\ Last(messages_map[k].children) = TheRoot
C3_Witness ==
  /\ OneRootWithChild
  /\ Len(messages_map[TheRoot].children) > 1
  /\ TheRoot \in Range(rendered)
  /\ pc = "next"

\* C4: within a conversation every child is taken from the same end of its
\* children list, at the root and at each node the walk advances from: all
\* first children or all last children.
C4_OneBranchRule ==
  \/ \A i \in 1..Len(picks) : picks[i].child = Head(picks[i].children)
  \/ \A i \in 1..Len(picks) : picks[i].child = Last(picks[i].children)

\* C5: a conversation titled "New chat" is skipped before its node table is
\* built, whatever its graph: no file is written for it, transcript or image.
C5_PlaceholderNeverRendered ==
  (convIdx > 0 /\ conv.title = Some(NewChat)) =>
    /\ pc \in {"next", "done"}
    /\ ~graph_built
    /\ Len(visited) = 0 /\ Len(rendered) = 0
    /\ OwnFiles = {}
C5_Witness ==
  /\ convIdx = 2 /\ conv.title = Some(NewChat) /\ conv.mapping = Some(TImages)
  /\ files # {}

\* C6: when the body of the loop ran to its end, the transcript is in the
\* output directory exactly when a message was rendered; with no message
\* rendered nothing is written and the diagnostic is printed.
C6_WrittenIffRendered ==
  AtEnd =>
    /\ (\E f \in OwnFiles : f.kind = "md" /\ f.path = Normalize(filename) /\ f.data = md)
         <=> Len(rendered) > 0
    /\ Len(rendered) = 0 =>
         /\ OwnFiles = {}
         /\ "ERROR: Failed to detect content" \in OwnLines
         /\ "Wrote" \notin OwnLines
C6_Witness ==
  /\ AtEnd /\ root_id # "" /\ Len(visited) > 0 /\ Len(rendered) = 0
  /\ "ERROR: Failed to detect content" \in OwnLines

\* C7: two runs of main on the same input, the second on an emptied output
\* directory, leave the same transcript files with the same contents.
Transcripts(fs) == {[path |-> f.path, data |-> f.data] : f \in {g \in fs : g.kind = "md"}}
C7_SameTranscripts ==
  (run = 2 /\ pc = "done") => Transcripts(files) = Transcripts(first_files)

\* C8: two different conversations of a batch that both write a transcript
\* write it to different files: their base names differ.
C8_UniqueBaseNames ==
  \A i, j \in 1..Len(stdout) :
    (stdout[i].line = "Wrote" /\ stdout[j].line = "Wrote" /\ stdout[i].conv # stdout[j].conv)
      => stdout[i].file # stdout[j].file

\* C9: when find_png_for_asset returns a name, the name is
\* <document base name>_<stem of the source file>.png, and the source was
\* copied to the file of that name directly in the output directory.
ExpectedPngName(src) ==
  Unwrap(PathFileStem(filename)) \o <<"_">> \o Unwrap(PathFileStem(src)) \o PngExt
C9_CopyInOutputDir ==
  \A i \in 1..Len(asset_log) :
    LET e == asset_log[i]
    IN  IsSome(e.res.ret) =>
          /\ Unwrap(e.res.ret) = ExpectedPngName(Unwrap(e.res.found))
          /\ \E f \in files :
               /\ f.kind = "png"
               /\ f.path = Append(Normalize(outpath), ExpectedPngName(Unwrap(e.res.found)))

CurrentTable == IF IsSome(conv.mapping) THEN Unwrap(conv.mapping) ELSE {}

\* C11: a value of the mapping that does not parse is not in the node table
\* and every value that parses is, under its own identifier; when the child
\* the walk takes is not a key of the table, the walk ends at the current node
\* without an error, and the messages rendered so far stay in the document
\* (which is then written as for any conversation).
C11_MalformedDroppedWalkEnds ==
  (Current /\ graph_built) =>
    /\ DOMAIN messages_map = {v.id : v \in {w \in CurrentTable : w.parses}}
    /\ \A v \in CurrentTable :
         IF v.parses THEN messages_map[v.id] = v ELSE v.id \notin DOMAIN messages_map
    /\ (Len(picks) > 0 /\ Last(picks).child \notin DOMAIN messages_map) =>
         /\ pc \notin {"walk", "panic"}
         /\ Last(picks).at = "walk" => Last(visited) = Last(picks).from
         /\ sections = Len(rendered)
         /\ Len(md) >= Len(rendered)
         /\ \A b \in 1..Len(rendered) :
              /\ BlockOf(b).kind = "block"
              /\ BlockOf(b).role = RoleLabel(Unwrap(messages_map[rendered[b]].message).role)
         /\ (pc \in {"next", "done"} /\ Len(rendered) > 0) =>
              \E f \in OwnFiles : f.kind = "md" /\ f.path = Normalize(filename) /\ f.data = md
C11_Witness ==
  /\ Current /\ graph_built
  /\ \E v \in CurrentTable : ~v.parses /\ Len(picks) > 1 /\ Last(picks).child = v.id
  /\ Len(rendered) > 0
  /\ pc = "next"
  /\ \E f \in OwnFiles : f.kind = "md" /\ f.data = md

\* The children links of a node table: the keys of the table that the nodes
\* of S list as children, and what is reached from S in at most n steps more.
Children(map, S) == {c \in DOMAIN map : \E k \in S : c \in Range(map[k].children)}
RECURSIVE ReachFrom(_, _, _)
ReachFrom(map, S, n) ==
  IF n = 0 \/ S = {} THEN S ELSE S \cup ReachFrom(map, Children(map, S), n - 1)
Acyclic(map) ==
  LET n == Cardinality(DOMAIN map)
  IN  \A k \in DOMAIN map : k \notin ReachFrom(map, Children(map, {k}), n)
\* The path of the claim: from k to the last child, again and again, as long
\* as the identifier is a key of the table
RECURSIVE LastChildPath(_, _, _)
LastChildPath(map, k, n) ==
  IF n = 0 \/ k \notin DOMAIN map THEN << >>
  ELSE <<k>> \o (IF Len(map[k].children) = 0 THEN << >>
                 ELSE LastChildPath(map, Last(map[k].children), n - 1))
ExpectedPath ==
  IF root_id = "" THEN << >>
  ELSE LastChildPath(messages_map, root_id, Cardinality(DOMAIN messages_map))
HasMessage(k) == IsSome(messages_map[k].message)
HeaderLen == IF IsSome(conv.create_time) THEN 2 ELSE 1

\* C12: for an acyclic node table the nodes the walk visits are the nodes of
\* the last-child path from the entry point, in path order (all of them once
\* the walk has ended); the blocks of the document are the messages of the
\* message-bearing nodes of that path, one block each and in that order; a
\* node without message adds no block and does not end the walk; no node off
\* the path is rendered.
C12_BlocksAreLastChildPath ==
  (Current /\ graph_built /\ Acyclic(messages_map)) =>
    /\ LET path == ExpectedPath
       IN  /\ Len(visited) <= Len(path)
           /\ visited = SubSeq(path, 1, Len(visited))
           /\ pc \in {"write", "next", "done", "error"} => visited = path
    /\ pc # "panic" => rendered = SelectSeq(visited, HasMessage)
    /\ Len(md) = HeaderLen + Len(rendered)
    /\ \A b \in 1..Len(rendered) :
         LET msg == Unwrap(messages_map[rendered[b]].message)
         IN  /\ BlockOf(b).kind = "block"
             /\ BlockOf(b).role = RoleLabel(msg.role)
             /\ msg.content.content_type = "text" =>
                  BlockOf(b).content =
                    [i \in 1..Len(msg.content.parts) |-> [kind |-> "text", s |-> msg.content.parts[i].s]]
             /\ msg.content.content_type = "multimodal_text" =>
                  Len(BlockOf(b).content) = Len(msg.content.parts)
C12_Witness ==
  /\ AtEnd /\ graph_built /\ Acyclic(messages_map)
  /\ Len(rendered) = 2
  /\ \E k \in DOMAIN messages_map : HasMessage(k) /\ k \notin Range(rendered)
  /\ \E k \in Range(visited) : Len(messages_map[k].children) > 1
  /\ \E f \in OwnFiles : f.kind = "md" /\ f.data = md

====
